---- MODULE Spec2Model ----
(***************************************************************************)
(* Model of github.com/AlmirSai/service:                                   *)
(*   - foundation/logger: Logger facade, logHandler (per-level event       *)
(*     hooks), toRecord;                                                   *)
(*   - the sales service bootstrap (main/run);                             *)
(*   - apis/tooling/logfmt: the log-filter CLI.                            *)
(* Strings that the code inspects character by character (service names    *)
(* under strings.ToLower) are sequences of ASCII codes; all other strings  *)
(* are atoms.                                                              *)
(***************************************************************************)
EXTENDS Integers, Sequences, FiniteSets, TLC

VARIABLES
    cfg,        \* arguments the constructor was called with
    logger,     \* the Logger struct: discard, handler, traceIDFn
    pool,       \* handlers derived from the logger's handler (WithAttrs/WithGroup)
    stack,      \* call stack of records travelling through handler.Handle
    calls,      \* level-method calls of the current top-level call tree
    sink,       \* records delivered to the underlying JSON handler
    hooked,     \* event-hook invocations
    traced,     \* contexts the trace function was called with
    bpc,        \* bootstrap: position in main/run
    notified,   \* bootstrap: signal.Notify has registered the channel
    shutdown,   \* bootstrap: the buffered channel of capacity 1
    sig,        \* bootstrap: the signal received from the channel
    delivered,  \* bootstrap: number of signals the OS has delivered
    status,     \* bootstrap: exit status of the process
    service,    \* logfmt: the -service flag
    input,      \* logfmt: lines of stdin
    lineNo,     \* logfmt: number of lines scanned so far
    out,        \* logfmt: lines printed on stdout
    cpc         \* logfmt: "scan", "done" or "panic"

loggerVars == <<cfg, logger, pool, stack, calls, sink, hooked, traced>>
bootVars   == <<bpc, notified, shutdown, sig, delivered, status>>
cliVars    == <<service, input, lineNo, out, cpc>>
vars       == <<cfg, logger, pool, stack, calls, sink, hooked, traced,
                bpc, notified, shutdown, sig, delivered, status,
                service, input, lineNo, out, cpc>>

----------------------------------------------------------------------------
(* Bounds *)

MaxCalls   == 2   \* level-method calls in one top-level call tree (hooks may log)
MaxArgs    == 2   \* length of a caller-supplied argument list
MaxPool    == 3   \* handlers in the derivation pool
MaxSignals == 2   \* signals the OS delivers to the bootstrap
MaxLines   == 2   \* lines on the filter's stdin

----------------------------------------------------------------------------
(* foundation/logger/model.go *)

LevelDebug == -4
LevelInfo  == 0
LevelWarn  == 4
LevelError == 8

Levels == {LevelDebug, LevelInfo, LevelWarn, LevelError}

\* A minimum level is any slog.Level; 12 lies above every level method.
MinLevels == Levels \cup {12}

\* The fields of Events; TRUE stands for a non-nil EventFn.
Slots == {"Debug", "Info", "Warn", "Error"}

Events == [Slots -> BOOLEAN]

NoEvents == [s \in Slots |-> FALSE]

SlotLevel(s) ==
    CASE s = "Debug" -> LevelDebug
      [] s = "Info"  -> LevelInfo
      [] s = "Warn"  -> LevelWarn
      [] s = "Error" -> LevelError

\* attrs[attr.Key] = attr.Value.Any(), in the order of r.Attrs: the last
\* attribute with a key wins.
RECURSIVE AttrMap(_)
AttrMap(attrs) ==
    IF attrs = <<>> THEN <<>>
    ELSE LET m == AttrMap(SubSeq(attrs, 1, Len(attrs) - 1))
             a == attrs[Len(attrs)]
         IN  [k \in (DOMAIN m) \cup {a.key} |-> IF k = a.key THEN a.val ELSE m[k]]

toRecord(r) ==
    [Time |-> r.time, Message |-> r.msg, Level |-> r.level,
     Attributes |-> AttrMap(r.attrs)]

----------------------------------------------------------------------------
(* log/slog as the logger package uses it *)

badKey == "!BADKEY"

\* Elements of an args ...any list: a string, a slog.Attr, or anything else.
Str(s)        == [t |-> "string", k |-> "", v |-> s]
AttrArg(k, v) == [t |-> "attr", k |-> k, v |-> v]
Other(v)      == [t |-> "other", k |-> "", v |-> v]

\* Record.Add: argsToAttr consumes a string together with the next element,
\* a lone trailing string or a non-string becomes !BADKEY.
RECURSIVE ArgsToAttrs(_)
ArgsToAttrs(args) ==
    IF args = <<>> THEN <<>>
    ELSE LET x == Head(args) IN
         IF x.t = "string"
         THEN IF Len(args) = 1
              THEN <<[key |-> badKey, val |-> x.v]>>
              ELSE <<[key |-> x.v, val |-> args[2].v]>>
                       \o ArgsToAttrs(SubSeq(args, 3, Len(args)))
         ELSE IF x.t = "attr"
              THEN <<[key |-> x.k, val |-> x.v]>> \o ArgsToAttrs(Tail(args))
              ELSE <<[key |-> badKey, val |-> x.v]>> \o ArgsToAttrs(Tail(args))

\* slog.NewJSONHandler(w, &HandlerOptions{Level: minLevel}): its state is the
\* level, the attributes attached by WithAttrs and the open groups.
NewJSONHandler(minLevel) ==
    [kind |-> "json", events |-> NoEvents,
     handler |-> [level |-> minLevel, attrs |-> <<>>, groups |-> <<>>]]

JSONEnabled(j, level) == level >= j.level

Scoped(groups, as) == [i \in 1..Len(as) |-> [groups |-> groups, key |-> as[i].key, val |-> as[i].val]]

JSONWithAttrs(j, as) == [j EXCEPT !.attrs = @ \o Scoped(j.groups, as)]

JSONWithGroup(j, name) == IF name = "" THEN j ELSE [j EXCEPT !.groups = Append(@, name)]

\* What the JSON handler writes for record r: the attached attributes, then
\* the record's own attributes under the open groups.
JSONHandle(j, r) ==
    [time |-> r.time, level |-> r.level, msg |-> r.msg, file |-> r.pc,
     attrs |-> j.attrs \o Scoped(j.groups, r.attrs)]

----------------------------------------------------------------------------
(* logHandler (src/unnamed/part_003) *)

newLogHandler(handler, events) ==
    [kind |-> "logHandler", events |-> events, handler |-> handler.handler]

\* A plausible slip: the level filter is not consulted.
EnabledAlways(h, level) == TRUE

Enabled(h, level) == JSONEnabled(h.handler, level)

WithAttrs(h, as) ==
    [kind |-> h.kind, events |-> h.events, handler |-> JSONWithAttrs(h.handler, as)]

\* A plausible slip: the derived handler loses the hook table.
WithGroupDropEvents(h, name) ==
    [kind |-> h.kind, events |-> NoEvents, handler |-> JSONWithGroup(h.handler, name)]

WithGroup(h, name) ==
    [kind |-> h.kind, events |-> h.events, handler |-> JSONWithGroup(h.handler, name)]

\* A plausible slip in the switch: Warn records routed to the Error hook.
HookSlotSwapped(level) ==
    CASE level = LevelDebug -> "Debug"
      [] level = LevelError -> "Error"
      [] level = LevelWarn  -> "Error"
      [] level = LevelInfo  -> "Info"
      [] OTHER              -> "none"

\* The switch of logHandler.Handle: the Events field consulted for r.Level.
HookSlot(level) ==
    CASE level = LevelDebug -> "Debug"
      [] level = LevelError -> "Error"
      [] level = LevelWarn  -> "Warn"
      [] level = LevelInfo  -> "Info"
      [] OTHER              -> "none"

\* TRUE when Handle of h invokes a hook for a record of this level.
Hooks(h, level) ==
    /\ h.kind = "logHandler"
    /\ HookSlot(level) \in Slots
    /\ h.events[HookSlot(level)]

----------------------------------------------------------------------------
(* Logger (src/unnamed/part_001) *)

Writers == {"buf", "discard"}   \* io.Writer: a real writer or io.Discard

Ctxs == {"c1", "c2"}

\* The TraceIDFn of the logger applied to ctx. "const" is the bootstrap's
\* function, which returns "".
TraceIDFn(kind, ctx) == IF kind = "byctx" THEN (IF ctx = "c1" THEN "t1" ELSE "t2") ELSE ""

\* The handler of new before the service tag: the JSON handler, wrapped in a
\* logHandler when at least one event hook is set.
baseHandler(minLevel, events) ==
    IF events["Debug"] \/ events["Info"] \/ events["Warn"] \/ events["Error"]
    THEN newLogHandler(NewJSONHandler(minLevel), events)
    ELSE NewJSONHandler(minLevel)

SvcAttr(name) == <<[key |-> "service", val |-> name]>>

\* A plausible slip: the service tag is not attached.
newNoService(w, minLevel, serviceName, traceIDFn, events) ==
    [discard   |-> (w = "discard"),
     handler   |-> baseHandler(minLevel, events),
     traceIDFn |-> traceIDFn]

\* A plausible slip: the discard flag is never set.
newNeverDiscard(w, minLevel, serviceName, traceIDFn, events) ==
    [discard   |-> FALSE,
     handler   |-> WithAttrs(baseHandler(minLevel, events), SvcAttr(serviceName)),
     traceIDFn |-> traceIDFn]

new(w, minLevel, serviceName, traceIDFn, events) ==
    [discard   |-> (w = "discard"),
     handler   |-> WithAttrs(baseHandler(minLevel, events), SvcAttr(serviceName)),
     traceIDFn |-> traceIDFn]

New(w, minLevel, serviceName, traceIDFn) == new(w, minLevel, serviceName, traceIDFn, NoEvents)

NewWithEvents(w, minLevel, serviceName, traceIDFn, events) ==
    new(w, minLevel, serviceName, traceIDFn, events)

NewWithHandler(h) == [discard |-> FALSE, handler |-> h, traceIDFn |-> "nil"]

\* The eight level methods: the level each bakes in and the caller depth.
Methods == {"Debug", "Debugc", "Info", "Infoc", "Warn", "Warnc", "Error", "Errorc"}

MethodLevel(m) ==
    CASE m \in {"Debug", "Debugc"} -> LevelDebug
      [] m \in {"Info", "Infoc"}   -> LevelInfo
      [] m \in {"Warn", "Warnc"}   -> LevelWarn
      [] m \in {"Error", "Errorc"} -> LevelError

CallerDepths == {4}            \* depths passed to the ...c variants

MethodCallers(m) == IF m \in {"Debug", "Info", "Warn", "Error"} THEN {3} ELSE CallerDepths

\* args = append(args, "trace_id", log.traceIDFn(ctx)) when traceIDFn != nil
WithTrace(log, ctx, args) ==
    IF log.traceIDFn # "nil"
    THEN args \o <<Str("trace_id"), Str(TraceIDFn(log.traceIDFn, ctx))>>
    ELSE args

\* time.Now(): the clock ticks with every call of the tree.
Now(calls0) == Len(calls0) + 1

\* A level method followed by write, up to the call of log.handler.Handle.
\* The call is appended to calls0; when the record is built, a frame for
\* handler.Handle is pushed.
Invoke(level, caller, ctx, msg, args, calls0, traced0) ==
    LET id  == Len(calls0) + 1
        now == Now(calls0)
        c  == [level |-> level, ctx |-> ctx, msg |-> msg, args |-> args, done |-> FALSE]
        r  == [time |-> now, level |-> level, msg |-> msg, pc |-> caller,
               attrs |-> ArgsToAttrs(WithTrace(logger, ctx, args))]
    IN  IF logger.discard \/ ~Enabled(logger.handler, level)
        THEN /\ calls'  = Append(calls0, [c EXCEPT !.done = TRUE])
             /\ traced' = traced0
             /\ stack'  = stack
        ELSE /\ calls'  = Append(calls0, c)
             /\ traced' = IF logger.traceIDFn # "nil" THEN Append(traced0, ctx) ELSE traced0
             /\ stack'  = Append(stack, [id |-> id, ctx |-> ctx, r |-> r,
                                         h |-> logger.handler, pc |-> "handle"])

Top == stack[Len(stack)]

Pop == SubSeq(stack, 1, Len(stack) - 1)

\* The position of the last attribute with this key.
LastWith(attrs, key) ==
    CHOOSE j \in DOMAIN attrs :
        /\ attrs[j].key = key
        /\ \A l \in DOMAIN attrs : attrs[l].key = key => l <= j

\* The sink entries and the hook invocations of call i.
SinkOf(i)  == {k \in DOMAIN sink : sink[k].id = i}

HooksOf(i) == {k \in DOMAIN hooked : hooked[k].id = i}

ArgElems == {Str("k"), AttrArg("trace_id", "u"), Other("7")}

ArgLists == UNION {[1..n -> ArgElems] : n \in 0..MaxArgs}

\* h.handler.Handle(ctx, r) of the frame on top of the stack: the record
\* reaches the JSON handler and the level method returns.
Deliver ==
    /\ sink'  = Append(sink, [id |-> Top.id, r |-> Top.r,
                              line |-> JSONHandle(Top.h.handler, Top.r)])
    /\ calls' = [calls EXCEPT ![Top.id].done = TRUE]
    /\ stack' = Pop

\* A caller invokes one of the level methods of the logger.
Call ==
    /\ stack = <<>> /\ calls = <<>>
    /\ \E m \in Methods, ctx \in Ctxs, args \in ArgLists :
         \E caller \in MethodCallers(m) :
           Invoke(MethodLevel(m), caller, ctx, "m", args, calls, traced)
    /\ UNCHANGED <<cfg, logger, pool, sink, hooked>>
    /\ UNCHANGED bootVars /\ UNCHANGED cliVars

\* The outermost call has returned to its caller, which goes on to its next
\* call; calls, sink, hooked and traced describe one call tree at a time.
Returned ==
    /\ stack = <<>> /\ calls # <<>>
    /\ calls' = <<>> /\ sink' = <<>> /\ hooked' = <<>> /\ traced' = <<>>
    /\ UNCHANGED <<cfg, logger, pool, stack>>
    /\ UNCHANGED bootVars /\ UNCHANGED cliVars

\* A plausible slip: the hook is started but not awaited (go h.events.X(...)),
\* so the record is delivered while the hook has not returned.
HandleAsyncHook ==
    /\ stack # <<>> /\ Top.pc = "handle"
    /\ hooked' = IF Hooks(Top.h, Top.r.level)
                 THEN Append(hooked, [id |-> Top.id, slot |-> HookSlot(Top.r.level),
                                      ctx |-> Top.ctx, rec |-> toRecord(Top.r),
                                      returned |-> FALSE])
                 ELSE hooked
    /\ Deliver
    /\ UNCHANGED <<cfg, logger, pool, traced>>
    /\ UNCHANGED bootVars /\ UNCHANGED cliVars

\* logHandler.Handle (or the JSON handler's Handle when no hook wraps it):
\* the switch on r.Level calls the registered hook with toRecord(r); without
\* a hook the record goes straight to the underlying handler.
Handle ==
    /\ stack # <<>> /\ Top.pc = "handle"
    /\ IF Hooks(Top.h, Top.r.level)
       THEN /\ hooked' = Append(hooked, [id |-> Top.id, slot |-> HookSlot(Top.r.level),
                                        ctx |-> Top.ctx, rec |-> toRecord(Top.r),
                                        returned |-> FALSE])
            /\ stack' = [stack EXCEPT ![Len(stack)].pc = "hook"]
            /\ UNCHANGED <<sink, calls>>
       ELSE /\ Deliver
            /\ UNCHANGED hooked
    /\ UNCHANGED <<cfg, logger, pool, traced>>
    /\ UNCHANGED bootVars /\ UNCHANGED cliVars

\* The running hook logs through the logger it closes over, as the
\* bootstrap's Error hook does with log.Info.
HookCall ==
    /\ stack # <<>> /\ Top.pc = "hook"
    /\ Len(calls) < MaxCalls
    /\ \E m \in {"Debug", "Info", "Warn", "Error"} :
         Invoke(MethodLevel(m), 3, Top.ctx, "alert", <<>>, calls, traced)
    /\ UNCHANGED <<cfg, logger, pool, sink, hooked>>
    /\ UNCHANGED bootVars /\ UNCHANGED cliVars

\* The hook returns and Handle passes the record to the original handler.
HookReturn ==
    /\ stack # <<>> /\ Top.pc = "hook"
    /\ hooked' = [i \in 1..Len(hooked) |->
                    IF hooked[i].id = Top.id THEN [hooked[i] EXCEPT !.returned = TRUE]
                    ELSE hooked[i]]
    /\ Deliver
    /\ UNCHANGED <<cfg, logger, pool, traced>>
    /\ UNCHANGED bootVars /\ UNCHANGED cliVars

----------------------------------------------------------------------------
(* Specification of the logger facade *)

ServiceNames == {"SALES"}

\* Handlers a caller may hand to NewWithHandler.
ExternalHandlers ==
    { NewJSONHandler(LevelInfo),
      newLogHandler(NewJSONHandler(LevelInfo), [NoEvents EXCEPT !["Error"] = TRUE]),
      WithAttrs(NewJSONHandler(LevelDebug), SvcAttr("SALES")) }

IdleBoot ==
    /\ bpc = "idle" /\ notified = FALSE /\ shutdown = <<>> /\ sig = "none"
    /\ delivered = 0 /\ status = -1

IdleCLI ==
    /\ service = <<>> /\ input = <<>> /\ lineNo = 0 /\ out = <<>> /\ cpc = "idle"

EmptyLogs ==
    /\ stack = <<>> /\ calls = <<>> /\ sink = <<>> /\ hooked = <<>> /\ traced = <<>>

Init ==
    /\ \E ctor \in {"New", "NewWithEvents", "NewWithHandler"} :
         \/ /\ ctor = "New"
            /\ \E w \in Writers, m \in MinLevels, n \in ServiceNames, t \in {"nil", "byctx"} :
                 /\ cfg = [ctor |-> ctor, w |-> w, minLevel |-> m, serviceName |-> n,
                           traceIDFn |-> t, events |-> NoEvents]
                 /\ logger = New(w, m, n, t)
         \/ /\ ctor = "NewWithEvents"
            /\ \E w \in Writers, m \in MinLevels, n \in ServiceNames, t \in {"nil", "byctx"},
                  e \in Events :
                 /\ cfg = [ctor |-> ctor, w |-> w, minLevel |-> m, serviceName |-> n,
                           traceIDFn |-> t, events |-> e]
                 /\ logger = NewWithEvents(w, m, n, t, e)
         \/ /\ ctor = "NewWithHandler"
            /\ \E h \in ExternalHandlers :
                 /\ cfg = [ctor |-> ctor, w |-> "buf", minLevel |-> h.handler.level,
                           serviceName |-> "", traceIDFn |-> "nil", events |-> h.events]
                 /\ logger = NewWithHandler(h)
    /\ pool = <<>>
    /\ EmptyLogs
    /\ IdleBoot
    /\ IdleCLI

Next == Call \/ Handle \/ HookCall \/ HookReturn \/ Returned

Spec == Init /\ [][Next]_vars

----------------------------------------------------------------------------
(* Specification of handler derivation: WithAttrs and WithGroup applied to  *)
(* the handlers of a logger tree, and records handled by any of them, as    *)
(* slog.NewLogLogger(logger.handler, level) or slog.New(h) do.              *)

AttrLists == {<<>>, <<[key |-> "a", val |-> "1"]>>}

GroupNames == {"", "g"}

\* h.WithAttrs(attrs) for a handler h of the tree.
DeriveAttrs ==
    /\ stack = <<>> /\ calls = <<>> /\ Len(pool) < MaxPool
    /\ \E i \in DOMAIN pool, as \in AttrLists :
         pool' = Append(pool, WithAttrs(pool[i], as))
    /\ UNCHANGED <<cfg, logger, stack, calls, sink, hooked, traced>>
    /\ UNCHANGED bootVars /\ UNCHANGED cliVars

\* h.WithGroup(name) for a handler h of the tree.
DeriveGroup ==
    /\ stack = <<>> /\ calls = <<>> /\ Len(pool) < MaxPool
    /\ \E i \in DOMAIN pool, name \in GroupNames :
         pool' = Append(pool, WithGroup(pool[i], name))
    /\ UNCHANGED <<cfg, logger, stack, calls, sink, hooked, traced>>
    /\ UNCHANGED bootVars /\ UNCHANGED cliVars

\* A record is handed to a handler of the tree: Enabled, then Handle.
HandleOn ==
    /\ stack = <<>> /\ calls = <<>>
    /\ \E i \in DOMAIN pool, level \in Levels, ctx \in Ctxs, args \in ArgLists :
         LET c == [level |-> level, ctx |-> ctx, msg |-> "m", args |-> args, done |-> FALSE]
             r == [time |-> Now(<<>>), level |-> level, msg |-> "m", pc |-> 3,
                   attrs |-> ArgsToAttrs(args)]
         IN  IF Enabled(pool[i], level)
             THEN /\ calls' = <<c>>
                  /\ stack' = <<[id |-> 1, ctx |-> ctx, r |-> r, h |-> pool[i], pc |-> "handle"]>>
             ELSE /\ calls' = <<[c EXCEPT !.done = TRUE]>>
                  /\ stack' = <<>>
    /\ UNCHANGED <<cfg, logger, pool, sink, hooked, traced>>
    /\ UNCHANGED bootVars /\ UNCHANGED cliVars

InitHandler ==
    /\ \E m \in {LevelInfo}, e \in Events :
         /\ cfg = [ctor |-> "NewWithEvents", w |-> "buf", minLevel |-> m,
                   serviceName |-> "SALES", traceIDFn |-> "nil", events |-> e]
         /\ logger = NewWithEvents("buf", m, "SALES", "nil", e)
         /\ pool = <<baseHandler(m, e), logger.handler>>
    /\ EmptyLogs
    /\ IdleBoot
    /\ IdleCLI

NextHandler == DeriveAttrs \/ DeriveGroup \/ HandleOn \/ Handle \/ HookReturn \/ Returned

SpecHandler == InitHandler /\ [][NextHandler]_vars

\* C7: a handler obtained by any chain of WithAttrs/WithGroup, the service
\* tag of the constructor included, keeps the hook table of the handler it
\* comes from: a record of level L it handles invokes exactly the hook the
\* original handler invokes for L; deriving leaves existing handlers as
\* they were.
C7_DerivedKeepsHooks ==
    /\ [](/\ \A i \in DOMAIN pool : pool[i].kind = pool[1].kind /\ pool[i].events = pool[1].events
          /\ pool[1].events = cfg.events
          /\ calls # <<>> =>
                /\ Cardinality(HooksOf(1)) <= 1
                /\ \A k \in HooksOf(1) : hooked[k].slot = HookSlot(calls[1].level)
                /\ (calls[1].done /\ calls[1].level >= cfg.minLevel) =>
                      (HooksOf(1) # {} <=> Hooks(pool[1], calls[1].level)))
    /\ [][\A i \in DOMAIN pool : pool'[i] = pool[i]]_vars

C7_Witness ==
    /\ Len(pool) = 3
    /\ pool[3].handler.groups # <<>> /\ pool[3].handler.attrs # <<>>
    /\ calls # <<>> /\ calls[1].done
    /\ HooksOf(1) # {} /\ Len(sink) = 1
    /\ \E j \in DOMAIN sink[1].line.attrs : sink[1].line.attrs[j].groups # <<>>

----------------------------------------------------------------------------
(* The sales service bootstrap (src/unnamed/part_000): main builds the      *)
(* logger and calls run. Init is the state at the call of run.              *)

Signals == {"SIGINT", "SIGTERM"}

GoMaxProcs == {"1", "2"}        \* values of runtime.GOMAXPROCS(0)

\* Exit status of a process that dies from a signal it does not handle.
KilledBy(s) == IF s = "SIGINT" THEN 130 ELSE 143

BootInfo(msg, args) == Invoke(LevelInfo, 3, "c1", msg, args, calls, traced)

\* log.Info(ctx, "startup", "GOMAXPROCS", runtime.GOMAXPROCS(0))
BootStartup ==
    /\ bpc = "run"
    /\ \E n \in GoMaxProcs : BootInfo("startup", <<Str("GOMAXPROCS"), Other(n)>>)
    /\ bpc' = "startup"
    /\ UNCHANGED <<cfg, logger, pool, sink, hooked>>
    /\ UNCHANGED <<notified, shutdown, sig, delivered, status>>
    /\ UNCHANGED cliVars

\* shutdown := make(chan os.Signal, 1); signal.Notify(shutdown, SIGINT, SIGTERM)
BootNotify ==
    /\ bpc = "startup" /\ stack = <<>>
    /\ notified' = TRUE
    /\ shutdown' = <<>>
    /\ bpc' = "wait"
    /\ UNCHANGED loggerVars
    /\ UNCHANGED <<sig, delivered, status>>
    /\ UNCHANGED cliVars

\* A plausible slip: a non-blocking receive.
BootRecvNoBlock ==
    /\ bpc = "wait"
    /\ IF shutdown # <<>>
       THEN sig' = Head(shutdown) /\ shutdown' = Tail(shutdown)
       ELSE sig' = "none" /\ shutdown' = shutdown
    /\ bpc' = "recv"
    /\ UNCHANGED loggerVars
    /\ UNCHANGED <<notified, delivered, status>>
    /\ UNCHANGED cliVars

\* sig := <-shutdown
BootRecv ==
    /\ bpc = "wait"
    /\ shutdown # <<>>
    /\ sig' = Head(shutdown)
    /\ shutdown' = Tail(shutdown)
    /\ bpc' = "recv"
    /\ UNCHANGED loggerVars
    /\ UNCHANGED <<notified, delivered, status>>
    /\ UNCHANGED cliVars

\* log.Info(ctx, "shutdown", "status", "shutdown started", "signal", sig)
BootShutdownStarted ==
    /\ bpc = "recv"
    /\ BootInfo("shutdown", <<Str("status"), Str("shutdown started"),
                              Str("signal"), Other(sig)>>)
    /\ bpc' = "started"
    /\ UNCHANGED <<cfg, logger, pool, sink, hooked>>
    /\ UNCHANGED <<notified, shutdown, sig, delivered, status>>
    /\ UNCHANGED cliVars

\* defer log.Info(..., "shutdown completed", ...); return nil: the deferred
\* call runs as run returns.
BootReturn ==
    /\ bpc = "started" /\ stack = <<>>
    /\ BootInfo("shutdown", <<Str("status"), Str("shutdown completed"),
                              Str("signal"), Other(sig)>>)
    /\ bpc' = "completed"
    /\ UNCHANGED <<cfg, logger, pool, sink, hooked>>
    /\ UNCHANGED <<notified, shutdown, sig, delivered, status>>
    /\ UNCHANGED cliVars

\* run returned nil: main skips the error branch and returns.
BootExit ==
    /\ bpc = "completed" /\ stack = <<>>
    /\ status' = 0
    /\ bpc' = "exited"
    /\ UNCHANGED loggerVars
    /\ UNCHANGED <<notified, shutdown, sig, delivered>>
    /\ UNCHANGED cliVars

\* The OS delivers SIGINT or SIGTERM. Once signal.Notify has registered the
\* channel, the runtime sends on it without blocking (a full channel drops
\* the signal); before that the default action terminates the process.
Signal ==
    /\ bpc \notin {"idle", "exited", "killed"}
    /\ delivered < MaxSignals
    /\ delivered' = delivered + 1
    /\ \E s \in Signals :
         IF notified
         THEN /\ shutdown' = IF Len(shutdown) < 1 THEN Append(shutdown, s) ELSE shutdown
              /\ UNCHANGED <<bpc, status, stack>>
         ELSE /\ bpc' = "killed"
              /\ status' = KilledBy(s)
              /\ stack' = <<>>
              /\ UNCHANGED shutdown
    /\ UNCHANGED <<cfg, logger, pool, calls, sink, hooked, traced>>
    /\ UNCHANGED <<notified, sig>>
    /\ UNCHANGED cliVars

InitBoot ==
    /\ cfg = [ctor |-> "NewWithEvents", w |-> "buf", minLevel |-> LevelInfo,
              serviceName |-> "SALES", traceIDFn |-> "const",
              events |-> [NoEvents EXCEPT !["Error"] = TRUE]]
    /\ logger = NewWithEvents("buf", LevelInfo, "SALES", "const",
                              [NoEvents EXCEPT !["Error"] = TRUE])
    /\ pool = <<>>
    /\ EmptyLogs
    /\ bpc = "run" /\ notified = FALSE /\ shutdown = <<>> /\ sig = "none"
    /\ delivered = 0 /\ status = -1
    /\ IdleCLI

BootProc ==
    \/ BootStartup \/ BootNotify \/ BootRecv \/ BootShutdownStarted
    \/ BootReturn \/ BootExit \/ Handle

NextBoot ==
    \/ BootStartup \/ BootNotify \/ BootRecv \/ BootShutdownStarted
    \/ BootReturn \/ BootExit \/ Handle \/ Signal

\* The runtime keeps scheduling the main goroutine while it can run.
FairBoot == InitBoot /\ [][NextBoot]_vars /\ WF_vars(BootProc)

\* The lifecycle message of an emitted record.
LifeOf(e) ==
    IF e.r.msg = "startup" THEN "startup"
    ELSE e.r.attrs[LastWith(e.r.attrs, "status")].val

Life == [k \in DOMAIN sink |-> LifeOf(sink[k])]

FullLife == <<"startup", "shutdown started", "shutdown completed">>

LifeInOrder ==
    /\ Len(Life) <= 3
    /\ Life = SubSeq(FullLife, 1, Len(Life))
    /\ (Len(calls) >= 2 \/ bpc \in {"recv", "started", "completed", "exited"})
          => (sig \in Signals /\ delivered > 0)
    /\ \A i \in DOMAIN calls : calls[i].level = LevelInfo
    /\ hooked = <<>>
    /\ bpc = "exited" => (status = 0 /\ Life = FullLife)

ExitedNormally == bpc = "exited" /\ status = 0 /\ Life = FullLife

\* C8 as stated: the lifecycle messages come in the fixed order, the
\* shutdown messages only after a signal was received, and once a signal is
\* delivered the process logs both shutdown messages and exits with status 0.
C8_Original ==
    /\ LifeInOrder
    /\ (delivered > 0 /\ bpc \in {"exited", "killed"}) => ExitedNormally

\* C8 amended: the same order; once a signal is delivered after
\* signal.Notify has registered the channel, the process eventually logs
\* both shutdown messages and exits with status 0.
C8_LifecycleOrderAndExit ==
    /\ []LifeInOrder
    /\ (shutdown # <<>>) ~> ExitedNormally

C8_Witness ==
    /\ ExitedNormally /\ sig = "SIGTERM" /\ delivered = 2

----------------------------------------------------------------------------
(* The log-filter CLI (src/apis/tooling/logfmt/main.go)                     *)

StrSalesUpper == <<83, 65, 76, 69, 83>>           \* "SALES"
StrSalesMixed == <<83, 97, 108, 101, 115>>        \* "Sales"
StrSalesLower == <<115, 97, 108, 101, 115>>       \* "sales"
StrBilling    == <<66, 73, 76, 76, 73, 78, 71>>   \* "BILLING"
StrAbc        == <<97, 98, 99>>                   \* "abc"
StrHi         == <<104, 105>>                     \* "hi"
StrX          == <<120>>                          \* "x"

\* strings.ToLower on ASCII text
ToLower(str) == [i \in 1..Len(str) |-> IF str[i] \in 65..90 THEN str[i] + 32 ELSE str[i]]

\* "00000000-0000-0000-0000-000000000000"
NilUUID == [i \in 1..36 |-> IF i \in {9, 14, 19, 24} THEN 45 ELSE 48]

JStr(str) == [t |-> "string", s |-> str]
JNum(str) == [t |-> "number", s |-> str]

\* A line of stdin: text that is not JSON, a JSON array, JSON null, or a JSON
\* object with its members.
TextLine    == [kind |-> "text", fields |-> <<>>]
ArrayLine   == [kind |-> "array", fields |-> <<>>]
NullLine    == [kind |-> "null", fields |-> <<>>]
Object(f)   == [kind |-> "object", fields |-> f]

InputLines ==
    { TextLine, ArrayLine, NullLine,
      Object([k \in {"service", "msg"} |->
                 IF k = "service" THEN JStr(StrSalesUpper) ELSE JStr(StrHi)]),
      Object([k \in {"service", "trace_id", "extra"} |->
                 CASE k = "service"  -> JStr(StrSalesMixed)
                   [] k = "trace_id" -> JStr(StrAbc)
                   [] k = "extra"    -> JStr(StrX)]),
      Object([k \in {"service"} |-> JStr(StrBilling)]),
      Object([k \in {"msg"} |-> JStr(StrHi)]),
      Object([k \in {"service"} |-> JNum(<<55>>)]) }

Inputs == UNION {[1..n -> InputLines] : n \in 0..MaxLines}

Flags == {<<>>, StrSalesLower, StrSalesMixed}    \* values of -service; "" when absent

\* json.Unmarshal([]byte(s), &m) with m a map[string]any: an error for text
\* that is not JSON and for JSON that is not an object; null leaves no
\* members.
Unmarshal(line) ==
    [err |-> line.kind \in {"text", "array"},
     m   |-> IF line.kind = "object" THEN line.fields ELSE <<>>]

\* m[k].(string) succeeds
IsString(m, k) == k \in DOMAIN m /\ m[k].t = "string"

\* fmt's %s of m[k]
SprintS(m, k) ==
    IF k \notin DOMAIN m THEN [t |-> "%!s(<nil>)", s |-> <<>>]
    ELSE IF m[k].t = "string" THEN m[k]
    ELSE [t |-> "%!s(float64)", s |-> m[k].s]

\* fmt's %v of a value
SprintV(v) == [t |-> "string", s |-> v.s]

MainKeys == {"service", "time", "file", "level", "trace_id", "msg"}

\* The orders in which range m may visit the keys of a set.
Orders(keys) ==
    {o \in [1..Cardinality(keys) -> keys] : \A i, j \in DOMAIN o : o[i] = o[j] => i = j}

\* The reformatted line: the six main fields, then key[value] for the other
\* members in the order o, the trailing ": " cut off.
Format(m, o) ==
    [main  |-> <<SprintS(m, "service"), SprintS(m, "time"), SprintS(m, "file"),
                 SprintS(m, "level"),
                 IF "trace_id" \in DOMAIN m THEN SprintV(m["trace_id"]) ELSE JStr(NilUUID),
                 SprintS(m, "msg")>>,
     extra |-> [i \in DOMAIN o |-> [k |-> o[i], v |-> SprintV(m[o[i]])]]]

Cur == input[lineNo + 1]

Scanning == cpc = "scan" /\ lineNo < Len(input)

Filter == ToLower(service)

CLIFrame ==
    /\ UNCHANGED <<service, input>>
    /\ UNCHANGED loggerVars /\ UNCHANGED bootVars

\* json.Unmarshal fails: the raw line is printed when no filter is set.
Malformed ==
    /\ Scanning /\ Unmarshal(Cur).err
    /\ out' = IF Filter = <<>>
              THEN Append(out, [line |-> lineNo + 1, kind |-> "raw", text |-> Cur,
                                main |-> <<>>, extra |-> <<>>])
              ELSE out
    /\ lineNo' = lineNo + 1
    /\ UNCHANGED cpc
    /\ CLIFrame

\* A filter is set and m["service"].(string) does not hold: the type
\* assertion panics and the process dies.
AssertPanic ==
    /\ Scanning /\ ~Unmarshal(Cur).err
    /\ Filter # <<>> /\ ~IsString(Unmarshal(Cur).m, "service")
    /\ cpc' = "panic"
    /\ lineNo' = lineNo + 1
    /\ UNCHANGED out
    /\ CLIFrame

\* A filter is set and the lower-cased service differs from it: continue.
Skip ==
    /\ Scanning /\ ~Unmarshal(Cur).err
    /\ Filter # <<>> /\ IsString(Unmarshal(Cur).m, "service")
    /\ ToLower(Unmarshal(Cur).m["service"].s) # Filter
    /\ lineNo' = lineNo + 1
    /\ UNCHANGED <<out, cpc>>
    /\ CLIFrame

\* The line passes the filter and is printed reformatted.
Reformat ==
    /\ Scanning /\ ~Unmarshal(Cur).err
    /\ \/ Filter = <<>>
       \/ /\ IsString(Unmarshal(Cur).m, "service")
          /\ ToLower(Unmarshal(Cur).m["service"].s) = Filter
    /\ LET m == Unmarshal(Cur).m IN
       \E o \in Orders(DOMAIN m \ MainKeys) :
          out' = Append(out, [line |-> lineNo + 1, kind |-> "fmt", text |-> Cur,
                              main |-> Format(m, o).main, extra |-> Format(m, o).extra])
    /\ lineNo' = lineNo + 1
    /\ UNCHANGED cpc
    /\ CLIFrame

\* scanner.Scan() returns false at the end of stdin.
EndOfInput ==
    /\ cpc = "scan" /\ lineNo = Len(input)
    /\ cpc' = "done"
    /\ UNCHANGED <<lineNo, out>>
    /\ CLIFrame

InitCLI ==
    /\ cfg = [ctor |-> "none"] /\ logger = [discard |-> TRUE] /\ pool = <<>>
    /\ EmptyLogs
    /\ IdleBoot
    /\ service \in Flags
    /\ input \in Inputs
    /\ lineNo = 0 /\ out = <<>> /\ cpc = "scan"

NextCLI == Malformed \/ AssertPanic \/ Skip \/ Reformat \/ EndOfInput

SpecCLI == InitCLI /\ [][NextCLI]_vars

\* strings.EqualFold on ASCII text
SameLetter(a, b) ==
    \/ a = b
    \/ a \in 65..90 /\ b = a + 32
    \/ b \in 65..90 /\ a = b + 32

EqualFold(x, y) == Len(x) = Len(y) /\ \A i \in 1..Len(x) : SameLetter(x[i], y[i])

OutOf(i) == {k \in DOMAIN out : out[k].line = i}

\* What the claim lets line i produce.
Expected(i) ==
    LET line == input[i] IN
    IF line.kind \in {"text", "array"}
    THEN IF service = <<>> THEN "raw" ELSE "none"
    ELSE IF \/ service = <<>>
            \/ /\ "service" \in DOMAIN line.fields
               /\ line.fields["service"].t = "string"
               /\ EqualFold(line.fields["service"].s, service)
         THEN "fmt" ELSE "none"

Produced(i) ==
    IF OutOf(i) = {} THEN "none" ELSE out[CHOOSE k \in OutOf(i) : TRUE].kind

\* C9: per input line, an unparseable line is echoed verbatim iff no filter
\* is set, a parsed line is emitted reformatted iff no filter is set or its
\* service equals the filter ignoring case, and any other line produces no
\* output.
C9_PerLineDecision ==
    /\ \A i \in 1..lineNo : Cardinality(OutOf(i)) <= 1 /\ Produced(i) = Expected(i)
    /\ \A k \in DOMAIN out : out[k].kind = "raw" => out[k].text = input[out[k].line]
    /\ cpc \in {"done", "panic"} =>
          \A i \in 1..Len(input) : Produced(i) = Expected(i)

\* C10: no input line makes the filter terminate abnormally; every line is
\* read and processed until the end of input.
C10_NeverFatal ==
    /\ cpc # "panic"
    /\ cpc = "done" => lineNo = Len(input)

----------------------------------------------------------------------------
(* Properties of the logger facade *)

BuiltByNew == cfg.ctor \in {"New", "NewWithEvents"}

OneRecordOneHook(i) ==
    /\ Cardinality(SinkOf(i)) <= 1
    /\ calls[i].done => Cardinality(SinkOf(i)) = 1
    /\ Cardinality(HooksOf(i)) <= 1
    /\ \A k \in HooksOf(i) : SlotLevel(hooked[k].slot) = calls[i].level

\* C1 as stated: for a Logger built by New or NewWithEvents with minimum
\* level M, every call at a level L >= M delivers exactly one record to the
\* sink and invokes at most one hook, the one registered for exactly L.
C1_Original ==
    BuiltByNew =>
        \A i \in DOMAIN calls :
            calls[i].level >= cfg.minLevel => OneRecordOneHook(i)

\* C1 amended: the same, for a Logger whose writer is not the null writer
\* (discard flag unset).
C1_ExactlyOneRecordAtMostOneHook ==
    (BuiltByNew /\ cfg.w # "discard") =>
        \A i \in DOMAIN calls :
            calls[i].level >= cfg.minLevel => OneRecordOneHook(i)

C1_Witness ==
    /\ BuiltByNew /\ cfg.w # "discard"
    /\ Len(calls) = 2 /\ calls[1].done /\ calls[2].done
    /\ calls[1].level = LevelWarn /\ cfg.events["Warn"] /\ cfg.events["Error"]
    /\ calls[2].level >= cfg.minLevel
    /\ Cardinality(HooksOf(1)) = 1 /\ Cardinality(SinkOf(1)) = 1

\* C2: a call at a level below the minimum level invokes no hook and
\* delivers no record to the sink, whatever calls came before.
C2_BelowMinimumSilent ==
    \A i \in DOMAIN calls :
        calls[i].level < cfg.minLevel =>
            /\ SinkOf(i) = {} /\ HooksOf(i) = {}
            /\ \A k \in DOMAIN stack : stack[k].id # i

C2_Witness ==
    /\ cfg.w # "discard" /\ cfg.ctor = "NewWithEvents"
    /\ Len(calls) = 2 /\ calls[2].done
    /\ calls[2].level < cfg.minLevel
    /\ cfg.events[HookSlot(calls[2].level)]

TraceAttrs(attrs) == {k \in DOMAIN attrs : attrs[k].key = "trace_id"}

\* C3: with a trace function configured every emitted record carries a
\* trace_id attribute equal to the function's value for the call's context,
\* for any argument list; with a nil trace function the logger adds none.
C3_TraceIdOnEveryRecord ==
    \A k \in DOMAIN sink :
        LET c == calls[sink[k].id]
            a == sink[k].r.attrs
        IN  IF cfg.traceIDFn # "nil"
            THEN \E j \in TraceAttrs(a) : a[j].val = TraceIDFn(cfg.traceIDFn, c.ctx)
            ELSE Cardinality(TraceAttrs(a)) = Cardinality(TraceAttrs(ArgsToAttrs(c.args)))

\* C4: a logger constructed over the null writer returns from every level
\* method at once: no hook fires, no record reaches the sink, the trace
\* function is never called.
C4_DiscardDoesNothing ==
    (BuiltByNew /\ cfg.w = "discard") =>
        /\ sink = <<>> /\ hooked = <<>> /\ traced = <<>> /\ stack = <<>>
        /\ \A i \in DOMAIN calls : calls[i].done

C4_Witness ==
    /\ BuiltByNew /\ cfg.w = "discard"
    /\ cfg.traceIDFn # "nil"
    /\ calls # <<>> /\ calls[1].level >= cfg.minLevel
    /\ cfg.events[HookSlot(calls[1].level)]

Normalized(rec, r) ==
    /\ rec.Time = r.time /\ rec.Level = r.level /\ rec.Message = r.msg
    /\ DOMAIN rec.Attributes = {r.attrs[j].key : j \in DOMAIN r.attrs}
    /\ \A key \in DOMAIN rec.Attributes :
           rec.Attributes[key] = r.attrs[LastWith(r.attrs, key)].val

\* C5: when the level of an enabled record has a registered hook, the hook
\* has been invoked and has returned before the record is delivered; it was
\* given the normalized copy of that record (time, level, message, and the
\* attributes by key); the sink is given the record as write built it.
C5_HookBeforeSinkSameRecord ==
    /\ \A k \in DOMAIN sink :
          LET c == calls[sink[k].id] IN
          /\ cfg.events[HookSlot(c.level)] =>
                \E e \in HooksOf(sink[k].id) : hooked[e].returned
          /\ sink[k].r.level = c.level /\ sink[k].r.msg = c.msg
          /\ sink[k].r.attrs = ArgsToAttrs(WithTrace(logger, c.ctx, c.args))
          /\ \A e \in HooksOf(sink[k].id) : Normalized(hooked[e].rec, sink[k].r)
    /\ \A e \in DOMAIN hooked :
          /\ ~hooked[e].returned => SinkOf(hooked[e].id) = {}
          /\ \A f \in DOMAIN stack :
                stack[f].id = hooked[e].id => Normalized(hooked[e].rec, stack[f].r)

C5_Witness ==
    /\ Len(calls) = 2 /\ calls[1].done
    /\ Cardinality(HooksOf(1)) = 1 /\ Cardinality(SinkOf(2)) = 1
    /\ Len(sink) = 2 /\ sink[2].id = 1
    /\ Len(sink[2].r.attrs) = 2
    /\ sink[2].r.attrs[1].key = sink[2].r.attrs[2].key

HasService(line, name) ==
    \E j \in DOMAIN line.attrs :
        /\ line.attrs[j].key = "service" /\ line.attrs[j].groups = <<>>
        /\ line.attrs[j].val = name

HasSomeService(line) ==
    \E j \in DOMAIN line.attrs :
        line.attrs[j].key = "service" /\ line.attrs[j].groups = <<>>

\* C6 as stated: every record a Logger emits carries the service-name
\* attribute, for New, NewWithEvents and NewWithHandler.
C6_Original ==
    \A k \in DOMAIN sink :
        IF BuiltByNew THEN HasService(sink[k].line, cfg.serviceName)
        ELSE HasSomeService(sink[k].line)

\* C6 amended: every record emitted by a Logger built by New or
\* NewWithEvents carries the service name given to the constructor.
C6_ServiceTagOnEveryRecord ==
    BuiltByNew => \A k \in DOMAIN sink : HasService(sink[k].line, cfg.serviceName)

C6_Witness ==
    /\ cfg.ctor = "NewWithEvents"
    /\ Len(sink) = 2
    /\ HasService(sink[1].line, "SALES") /\ HasService(sink[2].line, "SALES")
====
